---- MODULE Spec2Model ----
(***************************************************************************)
(* DigiFarmer: the local-first session and reference-data layer of the     *)
(* home chat screen (src/frontend/app/index.tsx) and of the AI chat,       *)
(* profit calculator and market screens (src/frontend/app/ai-chat.tsx).    *)
(*                                                                         *)
(* One screen is open per behaviour.  Every async function of a screen is  *)
(* split at its awaits: one action per resumption.  Spec drives the        *)
(* screens through the handlers their views offer; SpecCalls invokes the   *)
(* functions of a chat screen directly, calls overlapping at will.         *)
(***************************************************************************)
EXTENDS Integers, Sequences, FiniteSets, TLC

\* ------------------------------------------------------------------ bounds
MaxClock == 1
MaxSends == 2
MaxRemounts == 1
MaxCalcs == 2
MaxAiSends == 1
MaxAdds == 2
MaxCallSends == 1

\* ------------------------------------------------------- JavaScript values
Undefined == "<undefined>"
Null == "<null>"

Texts == {"", " ", "hello"}
Images == {"img1"}
Languages == {"en", "hi"}
Screens == {"home", "aichat", "profit", "market"}
ChatScreens == {"home", "aichat"}

\* String.prototype.trim on the inputs of Texts.
Trim(s) == IF s = " " THEN "" ELSE s

\* Truthiness of a string-or-null value.
Truthy(s) == s # "" /\ s # Null /\ s # Undefined

\* a || b
OrElse(a, b) == IF Truthy(a) THEN a ELSE b

\* Date.now() and new Date().toISOString() read the wall clock.
DateNow(t) == ToString(t)
IsoString(t) == "T" \o ToString(t)

\* ------------------------------------------------------------ durable store
Absent == [kind |-> "absent", val |-> <<>>]
Corrupt == [kind |-> "corrupt", val |-> <<>>]
Json(v) == [kind |-> "json", val |-> v]

\* useState(() => Date.now().toString()) / useState(() => `ai_chat_${Date.now()}`)
NewSessionId(scr, t) == IF scr = "home" THEN DateNow(t) ELSE "ai_chat_" \o DateNow(t)

\* The key saveCachedMessages writes.
SaveKeyOfFlow(scr, sid) == IF scr = "home" THEN "chat_0" ELSE "ai_chat_ai_chat_0"
SaveKey(scr, sid) == IF scr = "home" THEN "chat_" \o sid ELSE "ai_chat_" \o sid

\* The key loadCachedMessages reads.
LoadKeyNoPrefix(scr, sid) == sid
LoadKey(scr, sid) == IF scr = "home" THEN "chat_" \o sid ELSE "ai_chat_" \o sid

SessionKeys ==
    UNION {{SaveKey(scr, NewSessionId(scr, t)), LoadKey(scr, NewSessionId(scr, t))} :
              <<scr, t>> \in ChatScreens \X (0..MaxClock)}

Keys == SessionKeys \cup {"profit_analyses", "market_prices", "price_alerts"}

\* JSON.stringify of a message list: a property whose value is undefined is
\* left out of the object.
StringFields == {"id", "message", "response", "timestamp", "language", "imageUri"}
StringifyMessage(m) ==
    [f \in {g \in DOMAIN m : ~(g \in StringFields /\ m[g] = Undefined)} |-> m[f]]
StringifyNothing(msgs) == <<>>
Stringify(msgs) == [i \in 1..Len(msgs) |-> StringifyMessage(msgs[i])]

\* obj.field: undefined when the object has no such property.
Get(m, f) == IF f \in DOMAIN m THEN m[f] ELSE Undefined

\* ------------------------------------------------------------ chat messages
OfflineTextShared(scr) ==
    "I'm currently offline. Your message has been saved and I'll respond when connection is restored."
OfflineText(scr) ==
    IF scr = "home"
    THEN "I'm currently offline, but I've saved your message. Here are some general farming tips: Check soil moisture regularly, monitor weather forecasts, and consider crop rotation for better yields. For specific advice, please try again when connected to the internet."
    ELSE "I'm currently offline. Your message has been saved and I'll respond when connection is restored."

UserMessage(scr, message, image, language, t) ==
    IF scr = "home"
    THEN [id |-> DateNow(t), message |-> message, response |-> "",
          timestamp |-> IsoString(t), isUser |-> TRUE]
    ELSE [id |-> DateNow(t),
          message |-> OrElse(message, "Image uploaded for disease detection"),
          response |-> "", timestamp |-> IsoString(t), isUser |-> TRUE,
          language |-> language, hasImage |-> Truthy(image),
          imageUri |-> IF Truthy(image) THEN "data:image/jpeg;base64," \o image
                       ELSE Undefined]

AiMessage(scr, data, t) ==
    IF scr = "home"
    THEN [id |-> data.message_id, message |-> "", response |-> data.response,
          timestamp |-> IsoString(t), isUser |-> FALSE]
    ELSE [id |-> data.message_id, message |-> "",
          response |-> OrElse(data.translated_response, data.response),
          timestamp |-> IsoString(t), isUser |-> FALSE,
          language |-> data.detected_language]

OfflineMessageAsUser(scr, t) ==
    [id |-> "offline_" \o DateNow(t), message |-> "", response |-> OfflineText(scr),
     timestamp |-> IsoString(t), isUser |-> TRUE]
OfflineMessage(scr, t) ==
    [id |-> "offline_" \o DateNow(t), message |-> "", response |-> OfflineText(scr),
     timestamp |-> IsoString(t), isUser |-> FALSE]

\* -------------------------------------------------------- the request body
\* message_type: selectedImage ? 'image' : 'text'   /   message_type: 'text'
MessageTypeText(scr, image) == "text"
MessageType(scr, image) ==
    IF scr = "home" THEN "text" ELSE IF Truthy(image) THEN "image" ELSE "text"

\* image_data: selectedImage ? `data:image/jpeg;base64,${selectedImage}` : null
ImageData(image) == IF Truthy(image) THEN "data:image/jpeg;base64," \o image ELSE Null

\* The object handed to JSON.stringify as the body of POST /api/chat.  (The
\* location of the multi-modal flow is left out.)
Envelope(scr, message, sid, image, language) ==
    IF scr = "home"
    THEN [message |-> message, session_id |-> sid,
          message_type |-> MessageType(scr, image)]
    ELSE [message |-> OrElse(message, "Please analyze this plant image for diseases"),
          session_id |-> sid, message_type |-> MessageType(scr, image),
          language |-> language, image_data |-> ImageData(image)]
NoEnvelope == [message |-> "", session_id |-> "", message_type |-> "none"]

\* The catch block of sendMessage issues no further fetch.
RetryAfterFailure(r) == r.net = "rejected"
RetryAfter(r) == FALSE

\* ------------------------------------------------------- the remote service
\* What fetch and response.json() can produce for POST /api/chat.
NoData ==
    [message_id |-> Undefined, response |-> Undefined,
     translated_response |-> Undefined, detected_language |-> Undefined]
Bodies ==
    { [message_id |-> "m1", response |-> "advice",
       translated_response |-> "salah", detected_language |-> "hi"],
      NoData }
Responses ==
    {[net |-> "rejected", status |-> 0, body |-> "none", data |-> NoData]}
    \cup {[net |-> "resolved", status |-> 500, body |-> "none", data |-> NoData]}
    \cup {[net |-> "resolved", status |-> 200, body |-> b, data |-> NoData] :
              b \in {"malformed", "null"}}
    \cup {[net |-> "resolved", status |-> 200, body |-> "object", data |-> d] :
              d \in Bodies}

\* response.ok
ResponseOk(r) == r.status >= 200 /\ r.status <= 299

\* The statements of sendMessage's try block that throw: a rejected fetch, the
\* explicit throw on !response.ok, response.json() on a malformed body, and
\* data.message_id on a body that parses to null.
ThrowsInTryIgnoringStatus(r) ==
    \/ r.net = "rejected"
    \/ r.body = "malformed"
    \/ r.body = "null"
ThrowsInTry(r) ==
    \/ r.net = "rejected"
    \/ ~ResponseOk(r)
    \/ r.body = "malformed"
    \/ r.body = "null"

\* if (!message.trim()) return;   /   if (!message.trim() && !selectedImage) return;
RejectsEmptyOnly(scr, message, image) == message = "" /\ ~Truthy(image)
Rejects(scr, message, image) ==
    IF scr = "home" THEN Trim(message) = ""
    ELSE Trim(message) = "" /\ ~Truthy(image)

\* saveCachedMessages: AsyncStorage.setItem inside try/catch; a failed write is
\* logged and swallowed.
SaveOutcomeUnguarded(writeOk) == IF writeOk THEN "stored" ELSE "thrown"
SaveOutcome(writeOk) == IF writeOk THEN "stored" ELSE "swallowed"

\* [...updatedMessages, aiMessage] and [...updatedMessages, offlineMessage]
WithResponseDiscarded(updated, reply) == updated
WithResponse(updated, reply) == Append(updated, reply)

\* --------------------------------------------------------------- the state
VARIABLES
    screen,            \* the open screen
    now,               \* the wall clock
    inst,              \* the screen instance (counts remounts)
    store,             \* AsyncStorage: key -> stored value
    alerts,            \* the titles Alert.alert has shown
    sessionId, messages, inputMessage, isLoading, isOnline,
    selectedImage, selectedLanguage,
    loadPc,            \* loadCachedMessages of this instance: pending / done
    loadRead,          \* what that load found under its key
    sends,             \* the sendMessage calls, each with its closure
    nSends,            \* how many sendMessage calls passed the guard
    appended,          \* history: the messages appended to the session sessionId
    writesOk,          \* history: every write to that session's key worked
    overlapped,        \* history: a send to it began while another was in flight
    loadUnclean,       \* history: a load of it failed to read, or ran beside a
                       \* send, or after one of the same instance
    sentThisInstance,  \* history: this instance has sent
    profit,            \* ProfitScreen: its state, and its calculateProfit call
    market             \* MarketScreen: its state, and its loadMarketData call

chatVars ==
    <<sessionId, messages, inputMessage, isLoading, isOnline, selectedImage,
      selectedLanguage, loadPc, loadRead, sends, nSends, appended, writesOk,
      overlapped, loadUnclean, sentThisInstance>>

vars == <<screen, now, inst, store, alerts, chatVars, profit, market>>

NoSend ==
    [pc |-> "idle", inst |-> 0, sid |-> "", message |-> "", image |-> Null,
     language |-> "en", updated |-> <<>>, final |-> <<>>, branch |-> "none",
     resp |-> CHOOSE r \in Responses : r.net = "rejected", assistants |-> 0,
     envelope |-> NoEnvelope, requests |-> 0]

InFlight(i) == sends[i].pc \in {"save1", "fetch", "save2"}

InitChat ==
    /\ sessionId = NewSessionId(screen, now)
    /\ messages = <<>>
    /\ inputMessage = ""
    /\ isLoading = FALSE
    /\ isOnline = TRUE
    /\ selectedImage = Null
    /\ selectedLanguage = "en"
    /\ loadPc = "pending"
    /\ loadRead = "none"
    /\ sends = [i \in 1..MaxSends |-> NoSend]
    /\ nSends = 0
    /\ appended = <<>>
    /\ writesOk = TRUE
    /\ overlapped = FALSE
    /\ loadUnclean = FALSE
    /\ sentThisInstance = FALSE

\* ------------------------------------------------------ the profit screen
\* The numbers of the profit computation are held in hundredths: Fixed(n) is
\* the number n, MulFixed the product of two numbers (exact when the product
\* has no more than two decimals, as for every input of Areas, Yields, Prices).
Fixed(n) == n * 100
MulFixed(a, b) == (a * b) \div 100

\* Number.prototype.toString of a number with up to two decimals.
FormatNumber(h) ==
    LET abs == IF h < 0 THEN -h ELSE h
        frac == abs % 100
    IN (IF h < 0 THEN "-" ELSE "") \o ToString(abs \div 100)
       \o (IF frac = 0 THEN ""
           ELSE IF frac % 10 = 0 THEN "." \o ToString(frac \div 10)
           ELSE "." \o ToString(frac \div 10) \o ToString(frac % 10))

\* parseFloat on the decimal numerals the form fields hold.
Numerals == {h * 50 : h \in 0..60}
ParseFloat(s) == CHOOSE h \in Numerals : FormatNumber(h) = s

\* Number.prototype.toLocaleString, the digit grouping of the locale left out.
ToLocaleString(h) == FormatNumber(h)

\* Number.prototype.toFixed(1) of num / den * 100.
RoundDiv(a, b) ==
    IF a >= 0 THEN (2 * a + b) \div (2 * b) ELSE -((2 * (-a) + b) \div (2 * b))
ToFixed1(tenths) ==
    LET abs == IF tenths < 0 THEN -tenths ELSE tenths
    IN (IF tenths < 0 THEN "-" ELSE "") \o ToString(abs \div 10) \o "." \o ToString(abs % 10)
MarginText(netProfit, totalRevenue) ==
    IF totalRevenue = 0 THEN (IF netProfit = 0 THEN "NaN" ELSE "-Infinity")
    ELSE ToFixed1(RoundDiv(netProfit * 10, totalRevenue \div 100))

\* The route parameters of the profit screen: those navigateToProfit passes, or
\* none.
NoParams == [cropName |-> Undefined, currentPrice |-> Undefined, location |-> Undefined]
ProfitParams ==
    { [cropName |-> "Rice", currentPrice |-> "25.5", location |-> "Punjab"],
      [cropName |-> "Wheat", currentPrice |-> "22", location |-> "Delhi"],
      NoParams }

Areas == {"", "2"}
Yields == {"", "20"}
Prices == {"", "22", "0"}

ZeroCosts ==
    [seeds |-> 0, fertilizer |-> 0, irrigation |-> 0, labor |-> 0, pesticides |-> 0,
     equipment |-> 0, transportation |-> 0, total |-> 0]

\* mockCostData[cropName] || mockCostData.Rice
MockCostData(crop) ==
    IF crop = "Wheat"
    THEN [seeds |-> 2500, fertilizer |-> 7000, irrigation |-> 8000, labor |-> 12000,
          pesticides |-> 3000, equipment |-> 5000, transportation |-> 1500,
          total |-> 39000]
    ELSE IF crop = "Cotton"
    THEN [seeds |-> 4000, fertilizer |-> 12000, irrigation |-> 15000, labor |-> 18000,
          pesticides |-> 8000, equipment |-> 8000, transportation |-> 3000,
          total |-> 68000]
    ELSE [seeds |-> 3000, fertilizer |-> 8000, irrigation |-> 12000, labor |-> 15000,
          pesticides |-> 4000, equipment |-> 6000, transportation |-> 2000,
          total |-> 50000]

\* yieldData[cropName] || 20
YieldData(crop) ==
    IF crop = "Rice" THEN 25 ELSE IF crop = "Wheat" THEN 20
    ELSE IF crop = "Cotton" THEN 15 ELSE IF crop = "Maize" THEN 22
    ELSE IF crop = "Sugarcane" THEN 350 ELSE IF crop = "Soybean" THEN 12 ELSE 20

\* The figures calculateProfit computes before its request.
FiguresPerQuintal(area, expectedYield, marketPrice, costBreakdown) ==
    LET areaFloat == ParseFloat(area)
        yieldFloat == ParseFloat(expectedYield)
        priceFloat == ParseFloat(marketPrice)
        totalCost == costBreakdown.total * areaFloat
        totalYield == MulFixed(yieldFloat, areaFloat)
        totalRevenue == MulFixed(totalYield, priceFloat)
    IN [areaFloat |-> areaFloat, yieldFloat |-> yieldFloat, priceFloat |-> priceFloat,
        totalCost |-> totalCost, totalYield |-> totalYield,
        totalRevenue |-> totalRevenue, netProfit |-> totalRevenue - totalCost]
Figures(area, expectedYield, marketPrice, costBreakdown) ==
    LET areaFloat == ParseFloat(area)
        yieldFloat == ParseFloat(expectedYield)
        priceFloat == ParseFloat(marketPrice)
        totalCost == costBreakdown.total * areaFloat
        totalYield == MulFixed(yieldFloat, areaFloat)
        totalRevenue == MulFixed(totalYield, priceFloat) * 100
    IN [areaFloat |-> areaFloat, yieldFloat |-> yieldFloat, priceFloat |-> priceFloat,
        totalCost |-> totalCost, totalYield |-> totalYield,
        totalRevenue |-> totalRevenue, netProfit |-> totalRevenue - totalCost]

\* The fallback analysis of the else branch; its text, line by line.
MockAnalysisText(p, c) ==
    "Profit Analysis for " \o p.cropName
    \o "|Total Area: " \o c.area \o " acres"
    \o "|Expected Yield: " \o FormatNumber(c.yieldFloat) \o " quintals/acre"
    \o "|Current Market Price: " \o c.marketPrice \o "/kg"
    \o "|Total Production: " \o FormatNumber(c.totalYield) \o " quintals"
    \o "|Cost Breakdown (" \o ToLocaleString(c.totalCost) \o ")"
    \o "|Seeds: " \o ToLocaleString(c.costBreakdown.seeds * c.areaFloat)
    \o "|Fertilizer: " \o ToLocaleString(c.costBreakdown.fertilizer * c.areaFloat)
    \o "|Irrigation: " \o ToLocaleString(c.costBreakdown.irrigation * c.areaFloat)
    \o "|Labor: " \o ToLocaleString(c.costBreakdown.labor * c.areaFloat)
    \o "|Pesticides: " \o ToLocaleString(c.costBreakdown.pesticides * c.areaFloat)
    \o "|Equipment: " \o ToLocaleString(c.costBreakdown.equipment * c.areaFloat)
    \o "|Transportation: " \o ToLocaleString(c.costBreakdown.transportation * c.areaFloat)
    \o "|Total Revenue: " \o ToLocaleString(c.totalRevenue)
    \o "|Total Cost: " \o ToLocaleString(c.totalCost)
    \o "|Net Profit: " \o ToLocaleString(c.netProfit)
    \o "|Profit Margin: " \o MarginText(c.netProfit, c.totalRevenue) \o "%"
    \o "|" \o (IF c.netProfit > 0 THEN "This crop shows positive profit potential."
               ELSE "Current projections show potential loss.")

MockAnalysis(p, c, t) ==
    [crop |-> p.cropName, area |-> c.areaFloat, location |-> p.location,
     profit_analysis |-> MockAnalysisText(p, c), timestamp |-> IsoString(t)]

\* useState<ProfitAnalysis | null>(null)
NullAnalysis == [null |-> TRUE]

\* What fetch and response.json() can produce for POST /api/market/predict-profit.
RemoteAnalysis ==
    [crop |-> "Wheat", area |-> Fixed(2), location |-> "Delhi",
     profit_analysis |-> "remote analysis", timestamp |-> "T9"]
ProfitResponses ==
    { [net |-> "rejected", status |-> 0, body |-> "none", data |-> NullAnalysis],
      [net |-> "resolved", status |-> 500, body |-> "none", data |-> NullAnalysis],
      [net |-> "resolved", status |-> 200, body |-> "malformed", data |-> NullAnalysis],
      [net |-> "resolved", status |-> 200, body |-> "object", data |-> RemoteAnalysis] }

\* analyses.slice(0, 10)
ProfitBound == 10
Slice(s, n) == SubSeq(s, 1, IF Len(s) < n THEN Len(s) ELSE n)

\* Line 937 names mockAnalysis, a const of the else block of line 888, outside
\* that block: the name resolves to nothing there, on either branch.
ResolveMockAnalysis(branch) == "ReferenceError"

NoCalc ==
    [area |-> "", marketPrice |-> "", costBreakdown |-> ZeroCosts,
     areaFloat |-> 0, yieldFloat |-> 0, priceFloat |-> 0, totalCost |-> 0,
     totalYield |-> 0, totalRevenue |-> 0, netProfit |-> 0,
     resp |-> CHOOSE r \in ProfitResponses : r.net = "rejected",
     branch |-> "none", produced |-> NullAnalysis, before |-> Absent,
     readOk |-> TRUE, thrown |-> "none"]

\* The state of a ProfitScreen after its mount effect.
NewProfitScreen(params) ==
    [cropName |-> params.cropName, location |-> params.location,
     area |-> "",
     expectedYield |-> IF Truthy(params.cropName)
                       THEN ToString(YieldData(params.cropName)) ELSE "",
     marketPrice |-> OrElse(params.currentPrice, ""),
     costBreakdown |-> IF Truthy(params.cropName) THEN MockCostData(params.cropName)
                       ELSE ZeroCosts,
     loading |-> FALSE, profitAnalysis |-> NullAnalysis,
     pc |-> "idle", calc |-> NoCalc, nCalcs |-> 0, puts |-> <<>>]

InitProfit ==
    profit \in {NewProfitScreen(p) :
                   p \in IF screen = "profit" THEN ProfitParams ELSE {NoParams}}

\* ------------------------------------------------------ the market screen
\* mockMarketData of a render at time t; price_per_kg in hundredths.
MockMarketData(t) ==
    << [id |-> "1", crop_name |-> "Rice", price_per_kg |-> 2550,
        market_name |-> "Ludhiana Mandi", location |-> "Punjab",
        timestamp |-> IsoString(t)],
       [id |-> "2", crop_name |-> "Wheat", price_per_kg |-> 2200,
        market_name |-> "Delhi Mandi", location |-> "Delhi",
        timestamp |-> IsoString(t)],
       [id |-> "3", crop_name |-> "Cotton", price_per_kg |-> 5575,
        market_name |-> "Ahmedabad Mandi", location |-> "Gujarat",
        timestamp |-> IsoString(t)],
       [id |-> "4", crop_name |-> "Sugarcane", price_per_kg |-> 325,
        market_name |-> "Muzaffarnagar Mandi", location |-> "Uttar Pradesh",
        timestamp |-> IsoString(t)],
       [id |-> "5", crop_name |-> "Maize", price_per_kg |-> 1850,
        market_name |-> "Bangalore Mandi", location |-> "Karnataka",
        timestamp |-> IsoString(t)],
       [id |-> "6", crop_name |-> "Soybean", price_per_kg |-> 4200,
        market_name |-> "Indore Mandi", location |-> "Madhya Pradesh",
        timestamp |-> IsoString(t)] >>

\* useState({ crop: '', targetPrice: '', isAbove: true })
NewAlert == [crop |-> "", targetPrice |-> "", isAbove |-> TRUE]

\* What the add-alert dialog can be filled with.
AlertCrops == {"", "Rice"}
TargetPrices == {"", "30"}
\* The price cards whose Set Alert button is pressed: the card of Rice.
AlertCards == {1}

\* An alert an earlier use of the screen has persisted under 'price_alerts'.
SavedAlert == [crop |-> "Wheat", targetPrice |-> ParseFloat("22"), isAbove |-> FALSE]

\* The state of a MarketScreen once its mount effect has called loadMarketData
\* and loadPriceAlerts and the getItem of each call is pending.
\* alertsPc is the position of the loadPriceAlerts call of the mount; writes
\* are the lists whose setItem an addPriceAlert call is awaiting, oldest
\* first; added is how the addPriceAlert call that settled last ended.
NewMarketScreen(scr) ==
    [prices |-> <<>>, loading |-> TRUE, refreshing |-> FALSE,
     pc |-> IF scr = "market" THEN "read1" ELSE "off", caller |-> "mount",
     readsOk |-> TRUE, writesOk |-> TRUE, sawCorrupt |-> FALSE,
     priceAlerts |-> <<>>, showAddAlert |-> FALSE, newAlert |-> NewAlert,
     alertsPc |-> IF scr = "market" THEN "read" ELSE "off",
     writes |-> <<>>, nAdds |-> 0, added |-> "none"]

InitMarket == market = NewMarketScreen(screen)

\* ------------------------------------------------------- the initial store
\* The key a screen reads at its start, and what it may find there.
ScreenKey(scr, sid) ==
    IF scr \in ChatScreens THEN LoadKey(scr, sid)
    ELSE IF scr = "profit" THEN "profit_analyses" ELSE "market_prices"
InitialValues(scr) ==
    IF scr = "market" THEN {Absent, Corrupt, Json(MockMarketData(0))}
    ELSE {Absent, Corrupt}
\* What the market screen may find under 'price_alerts', which only
\* addPriceAlert writes.
InitialAlerts(scr) ==
    IF scr = "market" THEN {Absent, Json(<<SavedAlert>>)} ELSE {Absent}

Init ==
    /\ screen \in Screens
    /\ now = 0
    /\ inst = 0
    /\ alerts = {}
    /\ InitChat
    /\ InitProfit
    /\ InitMarket
    /\ \E v \in InitialValues(screen), a \in InitialAlerts(screen) :
          store = [k \in Keys |-> IF k = ScreenKey(screen, sessionId) THEN v
                                  ELSE IF k = "price_alerts" THEN a ELSE Absent]

\* ------------------------------------------------------- the chat screens
nonChat == <<screen, now, inst, profit, market>>

\* The body of loadCachedMessages, all of it inside try/catch: a rejected
\* getItem and a JSON.parse that throws are caught and logged; null is skipped.
LoadOutcomeUnguarded(readOk, cached) ==
    IF ~readOk THEN "caught"
    ELSE IF cached.kind = "absent" THEN "skip"
    ELSE IF cached.kind = "corrupt" THEN "thrown"
    ELSE "set"
LoadOutcome(readOk, cached) ==
    IF ~readOk THEN "caught"
    ELSE IF cached.kind = "absent" THEN "skip"
    ELSE IF cached.kind = "corrupt" THEN "caught"
    ELSE "set"

\* useEffect(() => { loadCachedMessages(); }, []) : the getItem of the mount
\* effect resolves (or rejects).
LoadCachedMessages(readOk) ==
    /\ screen \in ChatScreens
    /\ loadPc = "pending"
    /\ LET cached == store[LoadKey(screen, sessionId)]
           o == LoadOutcome(readOk, cached)
       IN /\ messages' = IF o = "set" THEN cached.val ELSE messages
          /\ loadRead' = IF readOk THEN cached.kind ELSE "error"
          /\ loadPc' = IF o = "thrown" THEN "rejected" ELSE "done"
    /\ loadUnclean' = (\/ loadUnclean \/ ~readOk \/ sentThisInstance
                        \/ \E j \in 1..MaxSends : InFlight(j))
    /\ UNCHANGED <<nonChat, store, alerts, sessionId, inputMessage, isLoading, isOnline,
                   selectedImage, selectedLanguage, sends, nSends, appended, writesOk,
                   overlapped, sentThisInstance>>

\* sendMessage, the early return of its first line.
SendMessageEmpty(message) ==
    /\ screen \in ChatScreens
    /\ Rejects(screen, message, selectedImage)
    /\ UNCHANGED vars

\* sendMessage up to its first await: the user message is appended to the
\* messages of the render the call was made in, and its save is issued.
SendMessage(message) ==
    /\ screen \in ChatScreens
    /\ nSends < MaxSends
    /\ ~Rejects(screen, message, selectedImage)
    /\ LET i == nSends + 1
           userMessage ==
               UserMessage(screen, message, selectedImage, selectedLanguage, now)
           updatedMessages == Append(messages, userMessage)
       IN /\ isLoading' = TRUE
          /\ messages' = updatedMessages
          /\ inputMessage' = ""
          /\ sends' = [sends EXCEPT ![i] =
                         [NoSend EXCEPT !.pc = "save1", !.inst = inst,
                                        !.sid = sessionId, !.message = message,
                                        !.image = selectedImage,
                                        !.language = selectedLanguage,
                                        !.updated = updatedMessages]]
          /\ nSends' = i
          /\ appended' = Append(appended, userMessage)
          /\ overlapped' = (overlapped \/ \E j \in 1..MaxSends : InFlight(j))
          /\ loadUnclean' = (loadUnclean \/ loadPc # "done")
          /\ sentThisInstance' = TRUE
    /\ UNCHANGED <<nonChat, store, alerts, sessionId, isOnline, selectedImage,
                   selectedLanguage, loadPc, loadRead, writesOk>>

\* await saveCachedMessages(updatedMessages) resumes; the fetch is issued.
SaveUserMessageDone(i, writeOk) ==
    /\ sends[i].pc = "save1"
    /\ LET s == sends[i]
           o == SaveOutcome(writeOk)
       IN /\ store' = IF o = "stored"
                      THEN [store EXCEPT ![SaveKey(screen, s.sid)] =
                                            Json(Stringify(s.updated))]
                      ELSE store
          /\ sends' = [sends EXCEPT
                         ![i].pc = IF o = "thrown" THEN "rejected" ELSE "fetch",
                         ![i].envelope = IF o = "thrown" THEN @
                                         ELSE Envelope(screen, s.message, s.sid, s.image,
                                                       s.language),
                         ![i].requests = IF o = "thrown" THEN @ ELSE @ + 1]
          /\ writesOk' = (writesOk /\ writeOk)
    /\ UNCHANGED <<nonChat, alerts, sessionId, messages, inputMessage, isLoading,
                   isOnline, selectedImage, selectedLanguage, loadPc, loadRead,
                   nSends, appended, overlapped, loadUnclean, sentThisInstance>>

\* The fetch settles: the try block builds aiMessage, or the catch block the
\* offline message; either is appended to the call's updatedMessages and its
\* save is issued.  A state setter of an unmounted instance does nothing.
FetchResolved(i, r) ==
    /\ sends[i].pc = "fetch"
    /\ LET s == sends[i]
           mounted == s.inst = inst
           reply == IF ThrowsInTry(r) THEN OfflineMessage(screen, now)
                    ELSE AiMessage(screen, r.data, now)
           final == WithResponse(s.updated, reply)
       IN IF RetryAfter(r) /\ s.requests < 2
          THEN /\ sends' = [sends EXCEPT ![i].requests = @ + 1]
               /\ UNCHANGED <<messages, isOnline, appended>>
          ELSE /\ sends' = [sends EXCEPT ![i] =
                              [s EXCEPT !.pc = "save2", !.final = final, !.resp = r,
                                        !.branch = IF ThrowsInTry(r) THEN "catch"
                                                   ELSE "try",
                                        !.assistants = @ + (Len(final) - Len(s.updated))]]
               /\ messages' = IF mounted THEN final ELSE messages
               /\ isOnline' = IF mounted /\ screen = "home" /\ ThrowsInTry(r)
                              THEN FALSE ELSE isOnline
               /\ appended' = Append(appended, reply)
    /\ UNCHANGED <<nonChat, store, alerts, sessionId, inputMessage, isLoading,
                   selectedImage, selectedLanguage, loadPc, loadRead, nSends, writesOk,
                   overlapped, loadUnclean, sentThisInstance>>

\* await saveCachedMessages(finalMessages / offlineMessages) resumes; then the
\* rest of the branch and the finally block run.  (The 'Offline Mode' notice of
\* the catch block changes no state and is left out.)
SaveResponseDone(i, writeOk) ==
    /\ sends[i].pc = "save2"
    /\ LET s == sends[i]
           mounted == s.inst = inst
           o == SaveOutcome(writeOk)
           reply == OfflineMessage(screen, now)
           final == WithResponse(s.updated, reply)
       IN IF o = "thrown" /\ s.branch = "try"
          THEN \* an exception of the try block passes to the catch block
               /\ sends' = [sends EXCEPT ![i] =
                              [s EXCEPT !.final = final, !.branch = "catch",
                                        !.assistants = @ + (Len(final) - Len(s.updated))]]
               /\ messages' = IF mounted THEN final ELSE messages
               /\ isOnline' = IF mounted /\ screen = "home" THEN FALSE ELSE isOnline
               /\ appended' = Append(appended, reply)
               /\ UNCHANGED <<store, alerts, isLoading, selectedImage, writesOk>>
          ELSE /\ store' = IF o = "stored"
                           THEN [store EXCEPT ![SaveKey(screen, s.sid)] =
                                                 Json(Stringify(s.final))]
                           ELSE store
               /\ sends' = [sends EXCEPT ![i] =
                              [NoSend EXCEPT !.pc = IF o = "thrown" THEN "rejected"
                                                    ELSE "done",
                                             !.assistants = s.assistants,
                                             !.requests = s.requests]]
               /\ isOnline' = IF mounted /\ screen = "home" /\ s.branch = "try"
                              THEN TRUE ELSE isOnline
               /\ alerts' = alerts
               /\ isLoading' = IF mounted THEN FALSE ELSE isLoading
               /\ selectedImage' = IF mounted /\ screen = "aichat" THEN Null
                                   ELSE selectedImage
               /\ writesOk' = (writesOk /\ writeOk)
               /\ UNCHANGED <<messages, appended>>
    /\ UNCHANGED <<nonChat, sessionId, inputMessage, selectedLanguage, loadPc,
                   loadRead, nSends, overlapped, loadUnclean, sentThisInstance>>

\* pickImage: the gallery returns an asset with its base64 data.
PickImage(image) ==
    /\ screen = "aichat"
    /\ selectedImage' = image
    /\ UNCHANGED <<nonChat, store, alerts, sessionId, messages, inputMessage, isLoading,
                   isOnline, selectedLanguage, loadPc, loadRead, sends, nSends,
                   appended, writesOk, overlapped, loadUnclean,
                   sentThisInstance>>

\* takePhoto: the camera returns an asset with its base64 data.
TakePhoto(image) ==
    /\ screen = "aichat"
    /\ selectedImage' = image
    /\ UNCHANGED <<nonChat, store, alerts, sessionId, messages, inputMessage, isLoading,
                   isOnline, selectedLanguage, loadPc, loadRead, sends, nSends,
                   appended, writesOk, overlapped, loadUnclean,
                   sentThisInstance>>

\* The close button of the image preview: setSelectedImage(null).
RemoveImage ==
    /\ screen = "aichat"
    /\ Truthy(selectedImage)
    /\ selectedImage' = Null
    /\ UNCHANGED <<nonChat, store, alerts, sessionId, messages, inputMessage, isLoading,
                   isOnline, selectedLanguage, loadPc, loadRead, sends, nSends,
                   appended, writesOk, overlapped, loadUnclean,
                   sentThisInstance>>

\* The language modal: setSelectedLanguage(language.code).
SelectLanguage(code) ==
    /\ screen = "aichat"
    /\ selectedLanguage # code
    /\ selectedLanguage' = code
    /\ UNCHANGED <<nonChat, store, alerts, sessionId, messages, inputMessage, isLoading,
                   isOnline, selectedImage, loadPc, loadRead, sends, nSends,
                   appended, writesOk, overlapped, loadUnclean,
                   sentThisInstance>>

\* The screen is left and opened again while no send is in flight: a new
\* instance with fresh state, whose session id is read from the clock, which
\* has advanced to t meanwhile (or not at all).
Remount(t) ==
    /\ screen \in ChatScreens
    /\ inst < MaxRemounts
    /\ \A j \in 1..MaxSends : ~InFlight(j)
    /\ t >= now
    /\ now' = t
    /\ inst' = inst + 1
    /\ sessionId' = NewSessionId(screen, t)
    /\ messages' = <<>>
    /\ inputMessage' = ""
    /\ isLoading' = FALSE
    /\ isOnline' = TRUE
    /\ selectedImage' = Null
    /\ selectedLanguage' = "en"
    /\ loadPc' = "pending"
    /\ loadRead' = "none"
    /\ sentThisInstance' = FALSE
    /\ appended' = IF NewSessionId(screen, t) = sessionId THEN appended ELSE <<>>
    /\ writesOk' = (NewSessionId(screen, t) # sessionId \/ writesOk)
    /\ overlapped' = (NewSessionId(screen, t) = sessionId /\ overlapped)
    /\ loadUnclean' = (NewSessionId(screen, t) = sessionId /\ loadUnclean)
    /\ UNCHANGED <<screen, store, alerts, sends, nSends, profit, market>>

\* The screen is left while a send is in flight and opened again later: the
\* calls of the old instance go on, with no cleanup to stop them, beside a
\* new instance whose session id is read from the clock, advanced to t.
Abandon(t) ==
    /\ screen \in ChatScreens
    /\ inst < MaxRemounts
    /\ \E j \in 1..MaxSends : InFlight(j)
    /\ t > now
    /\ now' = t
    /\ inst' = inst + 1
    /\ sessionId' = NewSessionId(screen, t)
    /\ messages' = <<>>
    /\ inputMessage' = ""
    /\ isLoading' = FALSE
    /\ isOnline' = TRUE
    /\ selectedImage' = Null
    /\ selectedLanguage' = "en"
    /\ loadPc' = "pending"
    /\ loadRead' = "none"
    /\ sentThisInstance' = FALSE
    /\ appended' = <<>>
    /\ writesOk' = TRUE
    /\ overlapped' = FALSE
    /\ loadUnclean' = FALSE
    /\ UNCHANGED <<screen, store, alerts, sends, nSends, profit, market>>

\* The send button, pressed with text typed into the input:
\* onPress={() => sendMessage(inputMessage)}, disabled while isLoading or while
\* there is nothing to send.
SendDisabledWhenEmpty(text) ==
    ~(Trim(text) # "" \/ (screen = "aichat" /\ Truthy(selectedImage)))
SendDisabled(text) ==
    \/ isLoading
    \/ ~(Trim(text) # "" \/ (screen = "aichat" /\ Truthy(selectedImage)))
PressSend(text) ==
    /\ ~SendDisabled(text)
    /\ SendMessage(text)

\* handleQuickAction of the home screen, on the welcome view (shown while there
\* are no messages): an action with a route navigates, action '1' sends its
\* fixed message.
QuickActionIds == {"1", "2", "3", "4"}
QuickActionRoute(id) == IF id = "1" THEN "" ELSE "/route"
QuickActionMessage(id) ==
    IF id = "1"
    THEN "I need crop recommendations for my land. Can you help me with soil conditions, climate, and best crops to grow?"
    ELSE IF id = "4"
    THEN "I think my crops might have a disease. Can you help me identify symptoms and suggest treatments?"
    ELSE ""
HandleQuickAction(id) ==
    /\ screen = "home"
    /\ Len(messages) = 0
    /\ IF QuickActionRoute(id) # "" THEN UNCHANGED vars
       ELSE IF QuickActionMessage(id) # "" THEN SendMessage(QuickActionMessage(id))
       ELSE UNCHANGED vars

\* The quick prompts of the AI chat screen's welcome view.
QuickPrompts == {"Market prices today"}
PressQuickPrompt(text) ==
    /\ screen = "aichat"
    /\ Len(messages) = 0
    /\ SendMessage(text)

\* sendMessage invoked directly, whatever the screen shows.
CallSendMessage(message) == SendMessage(message)

\* ------------------------------------------------ the profit screen, acting
nonProfit == <<screen, now, inst, chatVars, market>>

\* onChangeText={setArea}, {setExpectedYield}, {setMarketPrice}
SetArea(text) ==
    /\ screen = "profit"
    /\ profit.area # text
    /\ profit' = [profit EXCEPT !.area = text]
    /\ UNCHANGED <<nonProfit, store, alerts>>

SetExpectedYield(text) ==
    /\ screen = "profit"
    /\ profit.expectedYield # text
    /\ profit' = [profit EXCEPT !.expectedYield = text]
    /\ UNCHANGED <<nonProfit, store, alerts>>

SetMarketPrice(text) ==
    /\ screen = "profit"
    /\ profit.marketPrice # text
    /\ profit' = [profit EXCEPT !.marketPrice = text]
    /\ UNCHANGED <<nonProfit, store, alerts>>

\* if (!area || !expectedYield || !marketPrice)
FieldsMissing ==
    ~Truthy(profit.area) \/ ~Truthy(profit.expectedYield) \/ ~Truthy(profit.marketPrice)

\* The catch and finally blocks of calculateProfit.
CalculateProfitCaught(p, thrown) ==
    [p EXCEPT !.loading = FALSE, !.pc = "done", !.calc.thrown = thrown]

\* The Calculate button (disabled while loading) with a field left empty.
CalculateProfitInvalid ==
    /\ screen = "profit"
    /\ ~profit.loading
    /\ FieldsMissing
    /\ alerts' = alerts \cup {"Please fill all required fields"}
    /\ UNCHANGED <<nonProfit, store, profit>>

\* The Calculate button with the fields filled: calculateProfit up to its
\* fetch.
CalculateProfit ==
    /\ screen = "profit"
    /\ ~profit.loading
    /\ ~FieldsMissing
    /\ profit.nCalcs < MaxCalcs
    /\ LET f == Figures(profit.area, profit.expectedYield, profit.marketPrice,
                        profit.costBreakdown)
       IN profit' =
              [profit EXCEPT
                 !.loading = TRUE, !.pc = "fetch", !.nCalcs = @ + 1,
                 !.calc = [NoCalc EXCEPT
                             !.area = profit.area, !.marketPrice = profit.marketPrice,
                             !.costBreakdown = profit.costBreakdown,
                             !.areaFloat = f.areaFloat, !.yieldFloat = f.yieldFloat,
                             !.priceFloat = f.priceFloat, !.totalCost = f.totalCost,
                             !.totalYield = f.totalYield,
                             !.totalRevenue = f.totalRevenue,
                             !.netProfit = f.netProfit]]
    /\ UNCHANGED <<nonProfit, store, alerts>>

\* The fetch settles.  A rejected fetch and a response.json() that throws go
\* to the catch block; otherwise the analysis is set (the payload when
\* response.ok, the fallback if not) and the getItem of line 935 is issued.
ProfitFetchResolved(r) ==
    /\ profit.pc = "fetch"
    /\ LET p == [profit EXCEPT !.calc.resp = r]
           mock == MockAnalysis(profit, profit.calc, now)
           shown == IF ResponseOk(r) THEN r.data ELSE mock
       IN IF r.net = "rejected" \/ (ResponseOk(r) /\ r.body = "malformed")
          THEN /\ profit' = CalculateProfitCaught(p, "fetch")
               /\ alerts' = alerts \cup {"Failed to calculate profit. Please try again."}
          ELSE /\ profit' = [p EXCEPT !.pc = "read", !.profitAnalysis = shown,
                                      !.calc.branch = IF ResponseOk(r) THEN "ok"
                                                      ELSE "else",
                                      !.calc.produced = shown,
                                      !.puts = <<shown>> \o @]
               /\ alerts' = alerts
    /\ UNCHANGED <<nonProfit, store>>

\* The getItem of line 935 settles.  The statements that follow throw on
\* every path: a rejected read, a stored value JSON.parse cannot read, and
\* otherwise the unresolvable name of line 937; the setItem of line 938 is not
\* reached, and the catch block shows its alert.
ProfitCacheRead(readOk) ==
    /\ profit.pc = "read"
    /\ LET cached == store["profit_analyses"]
           savedAnalyzes == IF cached.kind = "absent" THEN Json(<<>>) ELSE cached
           thrown == IF ~readOk THEN "getItem"
                     ELSE IF savedAnalyzes.kind = "corrupt" THEN "SyntaxError"
                     ELSE ResolveMockAnalysis(profit.calc.branch)
       IN profit' = CalculateProfitCaught(
                        [profit EXCEPT !.calc.before = cached, !.calc.readOk = readOk],
                        thrown)
    /\ alerts' = alerts \cup {"Failed to calculate profit. Please try again."}
    /\ UNCHANGED <<nonProfit, store>>

\* ------------------------------------------------ the market screen, acting
nonMarket == <<screen, now, inst, chatVars, profit>>

\* loadMarketData has settled: its finally block, and the rest of onRefresh
\* when that awaited it and it did not reject.
LoadMarketDataSettled(m, outcome) ==
    [m EXCEPT !.pc = outcome, !.loading = FALSE,
              !.refreshing = IF m.caller = "refresh" /\ outcome = "done" THEN FALSE
                             ELSE @]

\* The getItem of the try block settles.  A cached value is parsed and shown,
\* then the fresh prices are shown and their setItem is issued; a rejected
\* read or a value JSON.parse cannot read goes to the catch block.
LoadMarketDataRead(readOk) ==
    /\ market.pc = "read1"
    /\ LET cachedData == store["market_prices"]
           throws == ~readOk \/ cachedData.kind = "corrupt"
           data == MockMarketData(now)
       IN market' = [market EXCEPT
                       !.pc = IF throws THEN "read2" ELSE "write",
                       !.prices = IF throws THEN @ ELSE data,
                       !.readsOk = @ /\ readOk,
                       !.sawCorrupt = @ \/ (readOk /\ cachedData.kind = "corrupt")]
    /\ UNCHANGED <<nonMarket, store, alerts>>

\* What the setItem of the try block puts under 'market_prices', over the
\* value cached there: JSON.stringify(data).
PricesAppended(cached, data) == IF cached.kind = "json" THEN cached.val \o data ELSE data
PricesToCache(cached, data) == data

\* The setItem of the try block settles.
LoadMarketDataWritten(writeOk) ==
    /\ market.pc = "write"
    /\ IF writeOk
       THEN /\ store' = [store EXCEPT !["market_prices"] =
                            Json(PricesToCache(@, MockMarketData(now)))]
            /\ market' = LoadMarketDataSettled(market, "done")
       ELSE /\ store' = store
            /\ market' = [market EXCEPT !.pc = "read2", !.writesOk = FALSE]
    /\ UNCHANGED <<nonMarket, alerts>>

\* The getItem of the catch block settles.  Nothing guards the catch block: a
\* rejected read, or a value JSON.parse cannot read, rejects loadMarketData.
LoadMarketDataCatch(readOk) ==
    /\ market.pc = "read2"
    /\ LET cachedData == store["market_prices"]
           m == [market EXCEPT !.readsOk = @ /\ readOk,
                               !.sawCorrupt = @ \/ (readOk /\ cachedData.kind = "corrupt")]
       IN IF ~readOk \/ cachedData.kind = "corrupt"
          THEN /\ market' = LoadMarketDataSettled(m, "rejected")
               /\ alerts' = alerts
          ELSE IF cachedData.kind = "json"
          THEN /\ market' = LoadMarketDataSettled([m EXCEPT !.prices = cachedData.val],
                                                  "done")
               /\ alerts' = alerts \cup {"Showing cached market prices"}
          ELSE /\ market' = LoadMarketDataSettled(m, "done")
               /\ alerts' = alerts \cup {"Failed to load market prices"}
    /\ UNCHANGED <<nonMarket, store>>

\* onRefresh, from the RefreshControl of the list (shown once loading is
\* over), pulled when the clock reads t: the render it is called from has
\* built its mockMarketData at that time.
OnRefresh(t) ==
    /\ screen = "market"
    /\ market.pc \in {"done", "rejected"}
    /\ ~market.loading /\ ~market.refreshing
    /\ t >= now
    /\ now' = t
    /\ market' = [market EXCEPT !.refreshing = TRUE, !.loading = TRUE,
                                !.pc = "read1", !.caller = "refresh"]
    /\ UNCHANGED <<screen, inst, chatVars, profit, store, alerts>>

\* loadPriceAlerts: its getItem settles.  A value is parsed and shown; a
\* rejected read is caught and logged.
LoadPriceAlerts(readOk) ==
    /\ market.alertsPc = "read"
    /\ LET stored == store["price_alerts"]
       IN market' = [market EXCEPT
                       !.alertsPc = "done",
                       !.priceAlerts = IF readOk /\ stored.kind = "json"
                                       THEN stored.val ELSE @]
    /\ UNCHANGED <<nonMarket, store, alerts>>

\* The screen shows its list, and the dialog over it, once loading is over.
MarketShown == screen = "market" /\ ~market.loading

\* The add-circle button of the alerts section.
ShowAddAlert ==
    /\ MarketShown
    /\ ~market.showAddAlert
    /\ market' = [market EXCEPT !.showAddAlert = TRUE]
    /\ UNCHANGED <<nonMarket, store, alerts>>

\* The Set Alert button of an expanded price card.
SetAlert(k) ==
    /\ MarketShown
    /\ k \in 1..Len(market.prices)
    /\ ~market.showAddAlert
    /\ market' = [market EXCEPT !.newAlert.crop = market.prices[k].crop_name,
                                !.showAddAlert = TRUE]
    /\ UNCHANGED <<nonMarket, store, alerts>>

\* The inputs and the buttons of the dialog.
SetAlertCrop(text) ==
    /\ MarketShown /\ market.showAddAlert
    /\ market.newAlert.crop # text
    /\ market' = [market EXCEPT !.newAlert.crop = text]
    /\ UNCHANGED <<nonMarket, store, alerts>>

SetAlertTargetPrice(text) ==
    /\ MarketShown /\ market.showAddAlert
    /\ market.newAlert.targetPrice # text
    /\ market' = [market EXCEPT !.newAlert.targetPrice = text]
    /\ UNCHANGED <<nonMarket, store, alerts>>

SetAlertIsAbove(above) ==
    /\ MarketShown /\ market.showAddAlert
    /\ market.newAlert.isAbove # above
    /\ market' = [market EXCEPT !.newAlert.isAbove = above]
    /\ UNCHANGED <<nonMarket, store, alerts>>

CancelAddAlert ==
    /\ MarketShown /\ market.showAddAlert
    /\ market' = [market EXCEPT !.showAddAlert = FALSE]
    /\ UNCHANGED <<nonMarket, store, alerts>>

\* if (!newAlert.crop || !newAlert.targetPrice)
AlertFieldsMissing == ~Truthy(market.newAlert.crop) \/ ~Truthy(market.newAlert.targetPrice)

AddPriceAlertInvalid ==
    /\ MarketShown /\ market.showAddAlert
    /\ AlertFieldsMissing
    /\ alerts' = alerts \cup {"Please fill all fields"}
    /\ UNCHANGED <<nonMarket, store, market>>

\* addPriceAlert up to its await: the alert is appended to the priceAlerts of
\* the render and the new list is shown and handed to setItem.
AddPriceAlert ==
    /\ MarketShown /\ market.showAddAlert
    /\ ~AlertFieldsMissing
    /\ market.nAdds < MaxAdds
    /\ LET alert == [crop |-> market.newAlert.crop,
                     targetPrice |-> ParseFloat(market.newAlert.targetPrice),
                     isAbove |-> market.newAlert.isAbove]
           updatedAlerts == Append(market.priceAlerts, alert)
       IN market' = [market EXCEPT !.priceAlerts = updatedAlerts,
                                   !.writes = Append(@, updatedAlerts),
                                   !.nAdds = @ + 1]
    /\ UNCHANGED <<nonMarket, store, alerts>>

\* The setItem of addPriceAlert settles.  Nothing catches its rejection: the
\* lines after the await run only when the write worked.
AddPriceAlertWritten(writeOk) ==
    /\ market.writes # <<>>
    /\ IF writeOk
       THEN /\ store' = [store EXCEPT !["price_alerts"] = Json(Head(market.writes))]
            /\ market' = [market EXCEPT !.writes = Tail(@), !.newAlert = NewAlert,
                                        !.showAddAlert = FALSE, !.added = "resolved"]
            /\ alerts' = alerts \cup {"Price alert added successfully!"}
       ELSE /\ market' = [market EXCEPT !.writes = Tail(@), !.added = "rejected"]
            /\ UNCHANGED <<store, alerts>>
    /\ UNCHANGED nonMarket

Next ==
    \/ \E readOk \in BOOLEAN : LoadCachedMessages(readOk)
    \/ \E text \in Texts : PressSend(text)
    \/ \E id \in QuickActionIds : HandleQuickAction(id)
    \/ \E text \in QuickPrompts : PressQuickPrompt(text)
    \/ \E i \in 1..MaxSends, writeOk \in BOOLEAN : SaveUserMessageDone(i, writeOk)
    \/ \E i \in 1..MaxSends, r \in Responses : FetchResolved(i, r)
    \/ \E i \in 1..MaxSends, writeOk \in BOOLEAN : SaveResponseDone(i, writeOk)
    \/ \E t \in 0..MaxClock : Remount(t)
    \/ \E text \in Areas : SetArea(text)
    \/ \E text \in Yields : SetExpectedYield(text)
    \/ \E text \in Prices : SetMarketPrice(text)
    \/ CalculateProfitInvalid
    \/ CalculateProfit
    \/ \E r \in ProfitResponses : ProfitFetchResolved(r)
    \/ \E readOk \in BOOLEAN : ProfitCacheRead(readOk)
    \/ \E readOk \in BOOLEAN : LoadMarketDataRead(readOk)
    \/ \E writeOk \in BOOLEAN : LoadMarketDataWritten(writeOk)
    \/ \E readOk \in BOOLEAN : LoadMarketDataCatch(readOk)
    \/ \E t \in 0..MaxClock : OnRefresh(t)

Spec == Init /\ [][Next]_vars

\* The functions of a chat screen called directly, calls overlapping at will.
NextCalls ==
    \/ \E readOk \in BOOLEAN : LoadCachedMessages(readOk)
    \/ \E message \in Texts : SendMessageEmpty(message)
    \/ \E message \in Texts : CallSendMessage(message)
    \/ \E i \in 1..MaxSends, writeOk \in BOOLEAN : SaveUserMessageDone(i, writeOk)
    \/ \E i \in 1..MaxSends, r \in Responses : FetchResolved(i, r)
    \/ \E i \in 1..MaxSends, writeOk \in BOOLEAN : SaveResponseDone(i, writeOk)
    \/ \E image \in Images : PickImage(image)
    \/ \E image \in Images : TakePhoto(image)
    \/ RemoveImage

SpecCalls == Init /\ [][NextCalls]_vars

\* A chat screen that is left while its sends are in flight.  Every await of
\* a call resumes at some time: the store and the network settle each call.
InitChatScreen == Init /\ screen \in ChatScreens
CallSendsLeft == nSends < MaxCallSends
NextAbandon ==
    \/ \E readOk \in BOOLEAN : LoadCachedMessages(readOk)
    \/ \E text \in Texts : CallSendsLeft /\ PressSend(text)
    \/ \E i \in 1..MaxSends, writeOk \in BOOLEAN : SaveUserMessageDone(i, writeOk)
    \/ \E i \in 1..MaxSends, r \in Responses : FetchResolved(i, r)
    \/ \E i \in 1..MaxSends, writeOk \in BOOLEAN : SaveResponseDone(i, writeOk)
    \/ \E t \in 0..MaxClock : Abandon(t)
Resumes(i) ==
    \/ \E writeOk \in BOOLEAN : SaveUserMessageDone(i, writeOk)
    \/ \E r \in Responses : FetchResolved(i, r)
    \/ \E writeOk \in BOOLEAN : SaveResponseDone(i, writeOk)
SpecAbandon ==
    /\ InitChatScreen
    /\ [][NextAbandon]_vars
    /\ \A i \in 1..MaxSends : WF_vars(Resumes(i))

\* sendMessage of a chat screen called with any text, whatever the view
\* would allow.
NextGuard ==
    \/ \E readOk \in BOOLEAN : LoadCachedMessages(readOk)
    \/ \E message \in Texts : SendMessageEmpty(message)
    \/ \E message \in Texts : CallSendsLeft /\ CallSendMessage(message)
    \/ \E i \in 1..MaxSends, writeOk \in BOOLEAN : SaveUserMessageDone(i, writeOk)
    \/ \E i \in 1..MaxSends, r \in Responses : FetchResolved(i, r)
    \/ \E i \in 1..MaxSends, writeOk \in BOOLEAN : SaveResponseDone(i, writeOk)
    \/ \E image \in Images : PickImage(image)
    \/ RemoveImage
SpecGuard == InitChatScreen /\ [][NextGuard]_vars

\* The market screen alone, with its price alerts, the list never refreshed.
InitMarketScreen == Init /\ screen = "market"
NextMarket ==
    \/ \E readOk \in BOOLEAN : LoadMarketDataRead(readOk)
    \/ \E writeOk \in BOOLEAN : LoadMarketDataWritten(writeOk)
    \/ \E readOk \in BOOLEAN : LoadMarketDataCatch(readOk)
    \/ \E readOk \in BOOLEAN : LoadPriceAlerts(readOk)
    \/ ShowAddAlert
    \/ \E k \in AlertCards : SetAlert(k)
    \/ \E text \in AlertCrops : SetAlertCrop(text)
    \/ \E text \in TargetPrices : SetAlertTargetPrice(text)
    \/ \E above \in BOOLEAN : SetAlertIsAbove(above)
    \/ CancelAddAlert
    \/ AddPriceAlertInvalid
    \/ AddPriceAlert
    \/ \E writeOk \in BOOLEAN : AddPriceAlertWritten(writeOk)

SpecMarket == InitMarketScreen /\ [][NextMarket]_vars

\* The AI chat screen alone, driven through its view, with its image and
\* language controls.
InitAiChat == Init /\ screen = "aichat"

AiChatSendsLeft == nSends < MaxAiSends

NextAiChat ==
    \/ \E readOk \in BOOLEAN : LoadCachedMessages(readOk)
    \/ \E text \in Texts : AiChatSendsLeft /\ PressSend(text)
    \/ \E text \in QuickPrompts : AiChatSendsLeft /\ PressQuickPrompt(text)
    \/ \E i \in 1..MaxSends, writeOk \in BOOLEAN : SaveUserMessageDone(i, writeOk)
    \/ \E i \in 1..MaxSends, r \in Responses : FetchResolved(i, r)
    \/ \E i \in 1..MaxSends, writeOk \in BOOLEAN : SaveResponseDone(i, writeOk)
    \/ \E image \in Images : PickImage(image)
    \/ \E image \in Images : TakePhoto(image)
    \/ RemoveImage
    \/ \E code \in Languages : SelectLanguage(code)

SpecAiChat == InitAiChat /\ [][NextAiChat]_vars

\* ------------------------------------------------------------------ claims
BoolFields == {"isUser", "hasImage"}

\* Two messages read the same: every property gives the same value.
SameMessage(a, b) ==
    /\ \A f \in StringFields : Get(a, f) = Get(b, f)
    /\ \A f \in BoolFields :
          /\ (f \in DOMAIN a) = (f \in DOMAIN b)
          /\ f \in DOMAIN a /\ f \in DOMAIN b => a[f] = b[f]

SameMessages(xs, ys) ==
    /\ Len(xs) = Len(ys)
    /\ \A i \in 1..Len(xs) : SameMessage(xs[i], ys[i])

Contains(log, m) == \E j \in 1..Len(log) : SameMessage(log[j], m)

IsPrefix(xs, ys) ==
    /\ Len(xs) <= Len(ys)
    /\ \A i \in 1..Len(xs) : xs[i] = ys[i]

Settled == \A j \in 1..MaxSends : ~InFlight(j)

PersistedLog ==
    LET v == store[SaveKey(screen, sessionId)]
    IN IF v.kind = "json" THEN v.val ELSE <<>>

\* C1: after N sequential appends to a session whose reads and writes of
\* the store completed, a fresh instance that loads the session from the same
\* storage key holds exactly those N messages, in append order (N >= 0).
C1_LoadYieldsAppends ==
    ( /\ screen \in ChatScreens
      /\ loadPc = "done"
      /\ ~sentThisInstance
      /\ writesOk /\ ~overlapped /\ ~loadUnclean )
    => SameMessages(messages, appended)

C1_Witness ==
    /\ screen \in ChatScreens
    /\ loadPc = "done" /\ loadRead = "json"
    /\ ~sentThisInstance
    /\ writesOk /\ ~overlapped /\ ~loadUnclean
    /\ Len(appended) >= 4
    /\ Len(messages) = Len(appended)

\* C2: two sends to one session issued before either's persistence completed
\* are both present, with their responses, in the in-memory and in the
\* persisted log once both have settled.
C2_BothAppendsKept ==
    ( /\ screen \in ChatScreens
      /\ overlapped /\ Settled
      /\ writesOk /\ ~loadUnclean )
    => \A i \in 1..Len(appended) :
          /\ Contains(messages, appended[i])
          /\ Contains(PersistedLog, appended[i])

\* C3: the persisted log of a session is append-only: every write leaves the
\* previously persisted log as a prefix of the new one.
C3_PersistedAppendOnly ==
    [][\A k \in SessionKeys :
          store[k].kind = "json"
          => store'[k].kind = "json" /\ IsPrefix(store[k].val, store'[k].val)]_vars

\* C4: a send that passed the guard and whose network call resolved, in any
\* way, ends without an exception escaping it and has appended exactly one
\* assistant message right after its user message, also when writes fail.
C4_OneResponsePerSend ==
    \A i \in 1..MaxSends :
        /\ sends[i].pc # "rejected"
        /\ sends[i].pc = "done" => sends[i].assistants = 1
        /\ sends[i].pc = "save2" =>
              LET s == sends[i]
                  n == Len(s.final)
              IN /\ s.assistants = 1
                 /\ n = Len(s.updated) + 1
                 /\ IsPrefix(s.updated, s.final)
                 /\ s.final[n - 1].isUser
                 /\ ~s.final[n].isUser

C4_Witness ==
    \E i \in 1..MaxSends :
        /\ sends[i].pc = "done"
        /\ sends[i].assistants = 1
        /\ ~writesOk

\* The text the remote service answered with, as the screen shows it.
RemoteText(scr, data) ==
    IF scr = "home" THEN data.response
    ELSE IF Truthy(data.translated_response) THEN data.translated_response
    ELSE data.response

\* C5 as stated: the send is Delivered exactly when the HTTP status is a
\* success and the body parses.
C5_DeliveredIffOkAndParses ==
    \A i \in 1..MaxSends :
        sends[i].pc = "save2" =>
            ( sends[i].branch = "try"
              <=> ( /\ sends[i].resp.net = "resolved"
                    /\ sends[i].resp.status \in 200..299
                    /\ sends[i].resp.body # "malformed" ) )

\* C5 amended: the send is Delivered, with the remote text appended, exactly
\* when the HTTP status is a success and the body parses to a value other
\* than null; otherwise it is Failed and the appended message is the offline
\* fallback of the flow.
C5_DeliveredIffOkAndObject ==
    \A i \in 1..MaxSends :
        sends[i].pc = "save2" =>
            LET s == sends[i]
                last == s.final[Len(s.final)]
                good == /\ s.resp.net = "resolved"
                        /\ s.resp.status \in 200..299
                        /\ s.resp.body = "object"
            IN /\ s.branch = (IF good THEN "try" ELSE "catch")
               /\ good => /\ last.response = RemoteText(screen, s.resp.data)
                          /\ last.id = s.resp.data.message_id
               /\ ~good => /\ last.response = OfflineText(screen)
                           /\ last.id = "offline_" \o DateNow(now)

C5_Witness ==
    \E i \in 1..MaxSends :
        /\ sends[i].pc = "save2"
        /\ sends[i].resp.body = "null"
        /\ sends[i].branch = "catch"

\* C6: loadCachedMessages on a key whose stored value cannot be parsed raises
\* no error and leaves the session empty, and the screen can still send.
C6_CorruptLoadLeavesEmpty ==
    ( screen \in ChatScreens /\ loadPc # "pending" /\ loadRead = "corrupt" )
    => /\ loadPc = "done"
       /\ ~sentThisInstance => ( /\ messages = <<>>
                                 /\ ~isLoading
                                 /\ nSends < MaxSends => ENABLED PressSend("hello") )

C6_Witness ==
    /\ screen \in ChatScreens
    /\ loadPc = "done" /\ loadRead = "corrupt"
    /\ ~sentThisInstance
    /\ messages = <<>>

\* The 'profit_analyses' sequence as getAll would return it.
PersistedAnalyses ==
    LET v == store["profit_analyses"]
    IN IF v.kind = "json" THEN v.val ELSE <<>>

CalculationEnded == screen = "profit" /\ profit.pc = "done" /\ profit.nCalcs > 0

\* C7: a cache value that cannot be parsed degrades to "empty", never to an
\* error.  On a market screen that found such a value under 'market_prices'
\* (every read and write of the store working), loadMarketData resolves with
\* the fresh prices shown and cached again and no alert; a calculateProfit
\* that found such a value under 'profit_analyses' ends with no error alert
\* and its analysis recorded.
C7_CorruptCacheDegrades ==
    /\ ( /\ screen = "market"
         /\ market.sawCorrupt /\ market.readsOk /\ market.writesOk
         /\ market.pc \in {"done", "rejected"} )
       => /\ market.pc = "done"
          /\ market.prices = MockMarketData(now)
          /\ store["market_prices"] = Json(MockMarketData(now))
          /\ alerts = {}
    /\ ( CalculationEnded /\ profit.calc.thrown = "SyntaxError" )
       => /\ "Failed to calculate profit. Please try again." \notin alerts
          /\ PersistedAnalyses = <<profit.calc.produced>>

\* C8: whatever calculateProfit calls have put an analysis into
\* 'profit_analyses', the persisted sequence is those analyses newest first,
\* cut to the bound of 10.
C8_BoundedNewestFirst ==
    ( /\ screen = "profit"
      /\ profit.pc \in {"idle", "done"}
      /\ store["profit_analyses"].kind # "corrupt"
      /\ profit.calc.readOk )
    => /\ Len(PersistedAnalyses) <= ProfitBound
       /\ PersistedAnalyses = Slice(profit.puts, ProfitBound)

\* C9: once calculateProfit has produced an analysis and its cache write was
\* reached with the store readable, that analysis is the first element of the
\* persisted sequence and the entries persisted before follow it, cut to the
\* bound.
C9_PutPrependsAndPersists ==
    ( /\ CalculationEnded
      /\ profit.calc.branch # "none"
      /\ profit.calc.readOk
      /\ profit.calc.before.kind # "corrupt" )
    => /\ PersistedAnalyses # <<>>
       /\ Head(PersistedAnalyses) = profit.calc.produced
       /\ PersistedAnalyses =
              Slice(<<profit.calc.produced>> \o profit.calc.before.val, ProfitBound)

\* C10: a calculation whose request failed, by a non-2xx status or by a body
\* that does not parse, ends with the locally computed fallback shown.
C10_FailedRequestShowsFallback ==
    ( /\ CalculationEnded
      /\ profit.calc.resp.net = "resolved"
      /\ \/ ~ResponseOk(profit.calc.resp)
         \/ profit.calc.resp.body = "malformed" )
    => profit.profitAnalysis = MockAnalysis(profit, profit.calc, now)

\* The sum of the seven cost fields of a cost breakdown.
SumOfCosts(cb) ==
    cb.seeds + cb.fertilizer + cb.irrigation + cb.labor + cb.pesticides
    + cb.equipment + cb.transportation

CalculationStarted == screen = "profit" /\ profit.pc # "idle"

\* C11: the figures of a calculation are totalCost = (the sum of the seven
\* cost fields) * area, totalRevenue = yield * area * 100 * price and
\* netProfit = totalRevenue - totalCost; the Rice costs with area 2, yield 25
\* and price 25.5 give 100000, 127500 and 27500.
C11_ProfitArithmetic ==
    CalculationStarted =>
        LET c == profit.calc
        IN /\ c.totalCost = SumOfCosts(c.costBreakdown) * c.areaFloat
           /\ c.totalRevenue * 100 = c.yieldFloat * c.areaFloat * c.priceFloat
           /\ c.netProfit = c.totalRevenue - c.totalCost
           /\ ( /\ c.costBreakdown = MockCostData("Rice")
                /\ c.area = "2" /\ c.yieldFloat = Fixed(25) /\ c.marketPrice = "25.5" )
              => /\ c.totalCost = Fixed(100000)
                 /\ c.totalRevenue = Fixed(127500)
                 /\ c.netProfit = Fixed(27500)

C11_Witness ==
    /\ CalculationStarted
    /\ profit.calc.costBreakdown = MockCostData("Rice")
    /\ profit.calc.area = "2" /\ profit.calc.marketPrice = "25.5"
    /\ profit.calc.yieldFloat = Fixed(25)
    /\ profit.calc.netProfit = Fixed(27500)

\* The fallback analysis of the last calculation is the one shown.
FallbackShown ==
    /\ CalculationStarted
    /\ profit.calc.branch = "else"
    /\ profit.profitAnalysis = MockAnalysis(profit, profit.calc, now)

\* C12: when the accepted inputs give totalRevenue = 0, the margin the
\* fallback analysis reports is not a NaN or an infinite value.
C12_ZeroRevenueMarginDefined ==
    ( FallbackShown /\ profit.calc.totalRevenue = 0 )
    => MarginText(profit.calc.netProfit, profit.calc.totalRevenue)
           \notin {"NaN", "Infinity", "-Infinity"}

\* The sends whose request has been dispatched and has not settled.
Dispatched(i) == sends[i].pc = "fetch"

\* C13: in every request body the multi-modal sendMessage has built,
\* message_type is 'image' exactly when image data was supplied (image_data
\* is not null) and 'text' exactly when image_data is null.
C13_EnvelopeModality ==
    \A i \in 1..MaxSends :
        ( screen = "aichat" /\ Dispatched(i) ) =>
            LET e == sends[i].envelope
            IN /\ e.message_type \in {"image", "text"}
               /\ (e.message_type = "image") <=> (e.image_data # Null)
               /\ (e.message_type = "image") <=> Truthy(sends[i].image)
               /\ (e.message_type = "text") <=> (e.image_data = Null)

C13_Witness ==
    \E i \in 1..MaxSends :
        /\ screen = "aichat" /\ Dispatched(i)
        /\ sends[i].envelope.message_type = "image"
        /\ sends[i].envelope.image_data = "data:image/jpeg;base64,img1"

\* C14: the text of every request body dispatched to /api/chat is not blank:
\* a send without an image is dispatched only with non-blank text, and a send
\* with an image whose text is empty or blank carries the fixed placeholder.
C14_EnvelopeTextNotBlank ==
    \A i \in 1..MaxSends :
        Dispatched(i) =>
            LET e == sends[i].envelope
            IN /\ Trim(e.message) # ""
               /\ ~Truthy(sends[i].image) => e.message = sends[i].message
               /\ ( Truthy(sends[i].image) /\ Trim(sends[i].message) = "" )
                  => e.message = "Please analyze this plant image for diseases"

\* C15: every request body dispatched to /api/chat, from either chat screen,
\* has a language field holding a language code, the code the call found
\* selected ('en' while none was chosen).
C15_EnvelopeHasLanguage ==
    \A i \in 1..MaxSends :
        Dispatched(i) =>
            /\ "language" \in DOMAIN sends[i].envelope
            /\ sends[i].envelope.language \in Languages
            /\ sends[i].envelope.language = sends[i].language

\* C16: a sendMessage call issues at most one request to /api/chat, whatever
\* the outcome; a failed attempt is not tried again.
C16_OneRequestPerSend ==
    \A i \in 1..MaxSends :
        /\ sends[i].requests <= 1
        /\ sends[i].pc \in {"fetch", "save2", "done"} => sends[i].requests = 1
        /\ sends[i].pc \in {"idle", "save1"} => sends[i].requests = 0

C16_Witness ==
    \E i \in 1..MaxSends :
        /\ sends[i].pc = "save2"
        /\ sends[i].branch = "catch"
        /\ sends[i].resp.net = "rejected"
        /\ sends[i].requests = 1

\* The messages the catch block of sendMessage has synthesized.
OfflineIds == {OfflineMessage(scr, t).id : scr \in ChatScreens, t \in 0..MaxClock}
IsOffline(m) == "id" \in DOMAIN m /\ "response" \in DOMAIN m /\ m.id \in OfflineIds
OfflineTexts(log) == {log[k].response : k \in {j \in 1..Len(log) : IsOffline(log[j])}}

\* C17: the offline text depends on the flow alone: all the offline messages
\* of a screen, in memory, persisted or about to be saved, whatever failure,
\* input or time produced them, carry one and the same text, and the text of
\* the home screen is not that of the AI chat screen.
C17_FallbackDeterminism ==
    /\ OfflineText("home") # OfflineText("aichat")
    /\ screen \in ChatScreens =>
          LET texts == OfflineTexts(messages) \cup OfflineTexts(PersistedLog)
                       \cup UNION {OfflineTexts(sends[i].final) : i \in 1..MaxSends}
          IN /\ Cardinality(texts) <= 1
             /\ texts \subseteq {OfflineText(screen)}

C17_Witness ==
    /\ screen \in ChatScreens
    /\ Len(messages) = 4
    /\ IsOffline(messages[2]) /\ IsOffline(messages[4])
    /\ messages[1].message # messages[3].message
    /\ \E i \in 1..MaxSends :
          sends[i].pc = "save2" /\ sends[i].resp.net = "resolved"

\* The setItem of an addPriceAlert call has just failed: a pending write is
\* gone and the store did not take its value.
AddWriteFailed ==
    /\ market.writes # <<>>
    /\ market'.writes = Tail(market.writes)
    /\ store' = store
    /\ store["price_alerts"] # Json(Head(market.writes))

\* A write of saveCachedMessages has just failed.
SendWriteFailed(i) ==
    /\ sends[i].pc \in {"save1", "save2"}
    /\ sends'[i] # sends[i]
    /\ writesOk /\ ~writesOk'

\* C18: a failed write to the store does not stop the operation: the send
\* goes on to its request with its user message shown (in a session no load
\* has replaced), or ends with its one response appended, and
\* addPriceAlert shows the new alert, resets the form, closes the dialog and
\* its promise is not rejected.
C18_WriteFailureCompletes ==
    [][ /\ \A i \in 1..MaxSends :
              SendWriteFailed(i) =>
                 /\ sends[i].pc = "save1" =>
                       /\ sends'[i].pc = "fetch"
                       /\ ~loadUnclean =>
                             Contains(messages', sends[i].updated[Len(sends[i].updated)])
                 /\ sends[i].pc = "save2" =>
                       /\ sends'[i].pc = "done"
                       /\ sends'[i].assistants = 1
        /\ AddWriteFailed =>
              LET updatedAlerts == Head(market.writes)
              IN /\ \E k \in 1..Len(market'.priceAlerts) :
                        market'.priceAlerts[k] = updatedAlerts[Len(updatedAlerts)]
                 /\ market'.newAlert = NewAlert
                 /\ ~market'.showAddAlert
                 /\ market'.added # "rejected" ]_vars

\* C19: the alerts persisted under 'price_alerts' are only ever appended to:
\* every step leaves the persisted sequence as a prefix of the new one, which
\* is at most one element longer.
C19_AlertsAppendOnly ==
    [][store["price_alerts"].kind = "json"
       => /\ store'["price_alerts"].kind = "json"
          /\ IsPrefix(store["price_alerts"].val, store'["price_alerts"].val)
          /\ Len(store'["price_alerts"].val) <= Len(store["price_alerts"].val) + 1]_vars

\* The ids sendMessage stamps from the clock: Date.now() of the user message
\* and offline_ plus Date.now() of the offline message.
ClockIds == {DateNow(t) : t \in 0..MaxClock} \cup OfflineIds

\* Two messages carry one id.  Two ids stamped from the clock by two sends
\* are not compared: the clock of the model is coarser than Date.now().
SameId(a, b) ==
    /\ "id" \in DOMAIN a /\ "id" \in DOMAIN b
    /\ Truthy(a.id)
    /\ a.id = b.id
    /\ ~(a.id \in ClockIds)

\* C20: no two messages of a session have the same id, in memory or in the
\* persisted log.
C20_UniqueIds ==
    screen \in ChatScreens =>
       \A log \in {messages, PersistedLog} :
          \A j, k \in 1..Len(log) : j # k => ~SameId(log[j], log[k])

\* A send of an instance that is no longer mounted.
Abandoned(i) == InFlight(i) /\ sends[i].inst # inst

C22_SendStepsInOrder ==
    screen \in ChatScreens =>
       \A i \in 1..MaxSends :
          LET s == sends[i]
              n == Len(s.updated)
          IN /\ s.pc = "save1" =>
                   /\ s.requests = 0 /\ s.envelope = NoEnvelope
                   /\ s.final = <<>> /\ s.assistants = 0
                   /\ n >= 1 /\ s.updated[n].isUser
             /\ s.pc = "fetch" =>
                   /\ s.requests = 1 /\ s.envelope # NoEnvelope
                   /\ s.final = <<>> /\ s.assistants = 0
                   /\ writesOk => SameMessages(PersistedLog, s.updated)
             /\ s.pc = "save2" =>
                   /\ s.requests = 1
                   /\ Len(s.final) = n + 1
                   /\ IsPrefix(s.updated, s.final)
                   /\ ~s.final[n + 1].isUser

C22_Witness ==
    \E i \in 1..MaxSends :
        /\ sends[i].pc = "fetch"
        /\ writesOk
        /\ Len(sends[i].updated) = 3
        /\ Len(PersistedLog) = 3

C24_RefreshOverwrites ==
    [][(market.pc = "write" /\ market'.pc = "done")
       => /\ market'.prices = MockMarketData(now)
          /\ store'["market_prices"].kind = "json"
          /\ store'["market_prices"].val = MockMarketData(now)]_vars

\* A refresh has replaced the snapshot of an earlier time.
C24_Witness ==
    /\ screen = "market"
    /\ now = 1
    /\ market.pc = "done" /\ market.caller = "refresh"
    /\ market.readsOk /\ market.writesOk /\ ~market.sawCorrupt
    /\ store["market_prices"] = Json(MockMarketData(1))
    /\ market.prices = MockMarketData(1)

\* C25: sendMessage does nothing for a text that is empty or blank with no
\* image selected: every call that got past its first line, and every user
\* message appended, has text that is not blank, or an image.
C25_BlankSendRejected ==
    screen \in ChatScreens =>
       /\ \A i \in 1..MaxSends :
             InFlight(i) =>
                \/ Trim(sends[i].message) # ""
                \/ screen = "aichat" /\ Truthy(sends[i].image)
       /\ \A k \in 1..Len(appended) :
             appended[k].isUser =>
                \/ Trim(appended[k].message) # ""
                \/ screen = "aichat" /\ appended[k].hasImage
       /\ nSends = 0 =>
             /\ ~isLoading /\ inputMessage = ""
             /\ appended = <<>>
             /\ \A k \in SessionKeys : store[k].kind # "json"

\* A send with a blank text went through, on account of its image.
C25_Witness ==
    \E i \in 1..MaxSends :
       /\ sends[i].pc = "fetch"
       /\ sends[i].message = " "
       /\ Truthy(sends[i].image)

\* C26: through the view of a chat screen at most one sendMessage call is in
\* flight at a time, and one is in flight only while isLoading is set.
C26_OneSendInFlight ==
    screen \in ChatScreens =>
       /\ Cardinality({i \in 1..MaxSends : InFlight(i)}) <= 1
       /\ (\E i \in 1..MaxSends : InFlight(i)) => isLoading
       /\ ~overlapped

\* The second send of an instance is in flight, the first one over.
C26_Witness ==
    /\ screen \in ChatScreens
    /\ isLoading
    /\ sends[1].pc = "done" /\ sends[1].inst = sends[2].inst
    /\ InFlight(2)

\* C27: once the calls a screen awaits have settled its busy flags are down:
\* isLoading of a chat screen with no send in flight, loading of the profit
\* screen with no calculation running, loading and refreshing of the market
\* screen once loadMarketData has settled, however it settled.
C27_BusyFlagsCleared ==
    /\ (screen \in ChatScreens /\ Settled) => ~isLoading
    /\ (screen = "profit" /\ profit.pc \in {"idle", "done"}) => ~profit.loading
    /\ (screen = "market" /\ market.pc \in {"done", "rejected"})
          => ~market.loading /\ ~market.refreshing

\* C28: a calculateProfit that has set its analysis, with the store readable
\* and holding nothing unparseable, ends in its try block: no exception
\* reaches the catch block and the error alert is not shown.
C28_ErrorOnlyWithoutAnalysis ==
    ( /\ CalculationEnded
      /\ profit.calc.branch # "none"
      /\ profit.calc.readOk
      /\ profit.calc.before.kind # "corrupt" )
    => /\ profit.calc.thrown = "none"
       /\ profit.nCalcs = 1 =>
             "Failed to calculate profit. Please try again." \notin alerts

\* C29: a selected image goes away only when the user removes it or when the
\* send that carried it ends, and the request of a send carries the image
\* that was selected when the send began.
C29_ImageClearedOnlyBySend ==
    [][/\ (Truthy(selectedImage) /\ selectedImage' = Null /\ inst' = inst)
          => \/ sends' = sends
             \/ \E i \in 1..MaxSends :
                   /\ sends[i].pc = "save2" /\ sends'[i].pc = "done"
                   /\ sends[i].image = selectedImage
       /\ \A i \in 1..MaxSends :
             sends'[i].pc = "fetch" =>
                sends'[i].envelope.image_data = ImageData(sends'[i].image)]_vars

\* A log of user/assistant pairs.
Paired(log) ==
    /\ Len(log) % 2 = 0
    /\ \A k \in 1..Len(log) :
          "isUser" \in DOMAIN log[k] /\ log[k].isUser = (k % 2 = 1)

====
